---- MODULE Spec2Model ----
(***************************************************************************)
(* echo-openapidocs: four providers (Stoplight Elements, Scalar, Swagger   *)
(* UI, Redoc) that mount a wildcard route on an echo router and answer     *)
(* every request under it with the raw OpenAPI spec, a redirect to the     *)
(* base path, or the rendered HTML page.                                   *)
(*                                                                         *)
(* Strings are TLA+ strings; the Go string functions the handlers call     *)
(* (strings.TrimSuffix, strings.HasSuffix, path.Join/path.Clean) and the   *)
(* escaping that html/template and encoding/json apply are operators       *)
(* computed character by character.                                        *)
(***************************************************************************)
EXTENDS Integers, Sequences, FiniteSets, TLC

VARIABLES
    provider,     \* which of the four provider modules the application uses
    pathPrefix,   \* the pathPrefix argument of the registration function
    userConfig,   \* the configuration the embedding application passes in
    config,       \* the handler factory's (by-value) config after default-filling
    useSpecUrl,   \* the factory's useSpecUrl flag
    pageTmpl,     \* the factory's parsed template
    routes,       \* the echo router: set of registered route patterns
    phase,        \* "new" | "serving" | "panicked" (construction panicked)
    panicValue,   \* the value construction panicked with, "" if it did not
    request,      \* the last request dispatched to the handler
    response,     \* the handler's answer to it
    inflight,     \* the requests being handled at once, each at its own step
    buffers,      \* the bytes.Buffer values the closures render into
    hops          \* the redirects a client followed to issue the last request

vars == <<provider, pathPrefix, userConfig, config, useSpecUrl, pageTmpl,
          routes, phase, panicValue, request, response, inflight, buffers,
          hops>>

----------------------------------------------------------------------------
(* Go string helpers *)

Char(s, i) == SubSeq(s, i, i)

\* strings.HasSuffix
HasSuffix(s, suffix) ==
    /\ Len(suffix) <= Len(s)
    /\ SubSeq(s, Len(s) - Len(suffix) + 1, Len(s)) = suffix

\* strings.HasPrefix
HasPrefix(s, prefix) ==
    /\ Len(prefix) <= Len(s)
    /\ SubSeq(s, 1, Len(prefix)) = prefix

\* strings.TrimSuffix: s without the trailing suffix, or s unchanged
TrimSuffix(s, suffix) ==
    IF HasSuffix(s, suffix) THEN SubSeq(s, 1, Len(s) - Len(suffix)) ELSE s

\* strings.Contains for a one-character needle
ContainsChar(s, c) == \E i \in 1..Len(s) : Char(s, i) = c

\* strings.Cut(s, ":") : the part before the first c (only used when present)
BeforeFirst(s, c) ==
    LET i == CHOOSE k \in 1..Len(s) :
                 /\ Char(s, k) = c
                 /\ \A j \in 1..(k - 1) : Char(s, j) # c
    IN  SubSeq(s, 1, i - 1)

\* index of the first occurrence of sub in s at or after position from, 0 if none
IndexFrom(s, sub, from) ==
    LET hits == {k \in from..(Len(s) - Len(sub) + 1) :
                     SubSeq(s, k, k + Len(sub) - 1) = sub}
    IN  IF hits = {} THEN 0 ELSE CHOOSE k \in hits : \A j \in hits : k <= j

\* path.Clean, as the lazybuf loop of the Go standard library: r is the read
\* index (1-based), out the output written so far, dotdot the index in out
\* where a ".." must stop.
RECURSIVE CleanLoop(_, _, _, _, _)
CleanLoop(path, rooted, r, out, dotdot) ==
    LET n == Len(path) IN
    IF r > n THEN out
    ELSE IF Char(path, r) = "/" THEN
        CleanLoop(path, rooted, r + 1, out, dotdot)
    ELSE IF Char(path, r) = "." /\ (r = n \/ Char(path, r + 1) = "/") THEN
        CleanLoop(path, rooted, r + 1, out, dotdot)
    ELSE IF /\ Char(path, r) = "."
            /\ r + 1 <= n /\ Char(path, r + 1) = "."
            /\ (r + 1 = n \/ Char(path, r + 2) = "/") THEN
        IF Len(out) > dotdot THEN
            \* back up over the last element
            LET cut == CHOOSE w \in dotdot..(Len(out) - 1) :
                          /\ (w = dotdot \/ Char(out, w + 1) = "/")
                          /\ \A v \in (w + 1)..(Len(out) - 1) :
                                 ~(v = dotdot \/ Char(out, v + 1) = "/")
            IN  CleanLoop(path, rooted, r + 2, SubSeq(out, 1, cut), dotdot)
        ELSE IF ~rooted THEN
            LET o2 == (IF Len(out) > 0 THEN out \o "/" ELSE out) \o ".."
            IN  CleanLoop(path, rooted, r + 2, o2, Len(o2))
        ELSE CleanLoop(path, rooted, r + 2, out, dotdot)
    ELSE
        LET o1  == IF (rooted /\ Len(out) # 1) \/ (~rooted /\ Len(out) # 0)
                   THEN out \o "/" ELSE out
            nxt == IndexFrom(path, "/", r)
            e   == IF nxt = 0 THEN n ELSE nxt - 1
        IN  CleanLoop(path, rooted, e + 1, o1 \o SubSeq(path, r, e), dotdot)

Clean(path) ==
    IF path = "" THEN "."
    ELSE LET rooted == Char(path, 1) = "/"
             out    == IF rooted
                       THEN CleanLoop(path, TRUE, 2, "/", 1)
                       ELSE CleanLoop(path, FALSE, 1, "", 0)
         IN  IF out = "" THEN "." ELSE out

\* path.Join for two elements: empty elements are ignored, the result is Cleaned
Join(a, b) ==
    IF a = "" /\ b = "" THEN ""
    ELSE IF a = "" THEN Clean(b)
    ELSE Clean(a \o "/" \o b)

----------------------------------------------------------------------------
(* Escaping applied by html/template and encoding/json to a value that is  *)
(* written into the page.  The model's strings use only characters the URL *)
(* normalizer of html/template leaves unchanged, so that step is omitted.  *)

\* html/template's HTML escapers (text, RCDATA and quoted attribute values)
HTMLEscapeChar(c) ==
    CASE c = "&"  -> "&amp;"
      [] c = "<"  -> "&lt;"
      [] c = ">"  -> "&gt;"
      [] c = "\"" -> "&#34;"
      [] c = "'"  -> "&#39;"
      [] c = "+"  -> "&#43;"
      [] OTHER    -> c

RECURSIVE HTMLEscape(_)
HTMLEscape(s) ==
    IF s = "" THEN ""
    ELSE HTMLEscapeChar(Char(s, 1)) \o HTMLEscape(SubSeq(s, 2, Len(s)))

\* html/template isSafeURL: a value with a scheme other than http, https or
\* mailto is not safe (the scheme is what precedes the first ":" when that
\* part holds no "/").  Schemes are lower case in the model.
isSafeURL(s) ==
    IF ContainsChar(s, ":") /\ ~ContainsChar(BeforeFirst(s, ":"), "/")
    THEN BeforeFirst(s, ":") \in {"http", "https", "mailto"}
    ELSE TRUE

\* html/template urlFilter: an unsafe URL is replaced by "#ZgotmplZ"
urlFilter(s) == IF isSafeURL(s) THEN s ELSE "#ZgotmplZ"

\* html/template attrType: an attribute whose lower-cased name contains
\* "src", "uri" or "url" holds a URL
IsURLAttr(name) ==
    \/ IndexFrom(name, "src", 1) # 0
    \/ IndexFrom(name, "uri", 1) # 0
    \/ IndexFrom(name, "url", 1) # 0

\* {{ .X }} inside a double-quoted attribute value of the attribute `name`
\* (lower-cased): URL attributes are filtered first, all are HTML-escaped.
AttrValue(name, s) ==
    IF IsURLAttr(name) THEN HTMLEscape(urlFilter(s)) ELSE HTMLEscape(s)

\* encoding/json string encoding (HTML-safe escaping is on in json.Marshal)
JSONEscapeChar(c) ==
    CASE c = "\"" -> "\\\""
      [] c = "\\" -> "\\\\"
      [] c = "<"  -> "\\u003c"
      [] c = ">"  -> "\\u003e"
      [] c = "&"  -> "\\u0026"
      [] OTHER    -> c

RECURSIVE JSONEscape(_)
JSONEscape(s) ==
    IF s = "" THEN ""
    ELSE JSONEscapeChar(Char(s, 1)) \o JSONEscape(SubSeq(s, 2, Len(s)))

JSONString(s) == "\"" \o JSONEscape(s) \o "\""

JSONBool(b) == IF b THEN "true" ELSE "false"

\* An HTML element's attributes and a JSON object's members are sequences of
\* <<name, text>> pairs in the order they are written.
Has(pairs, name) == \E i \in 1..Len(pairs) : pairs[i][1] = name

Get(pairs, name) ==
    pairs[CHOOSE i \in 1..Len(pairs) : pairs[i][1] = name][2]

\* one optional attribute or member: written only when cond holds
Opt(cond, name, text) == IF cond THEN <<<<name, text>>>> ELSE <<>>

----------------------------------------------------------------------------
(* Configurations *)

Providers == {"elements", "scalar", "swaggerui", "redoc"}

StatusOK    == 200
StatusFound == 302

MIMETextPlain == "text/plain; charset=utf-8"
MIMETextHTML  == "text/html; charset=UTF-8"

\* The built-in templates are represented by their names; what each renders
\* is given by the Execute...Template operators below.
defaultElementsTemplate  == "defaultElementsTemplate"
defaultScalarTemplate    == "defaultScalarTemplate"
defaultSwaggerUITemplate == "defaultSwaggerUITemplate"
defaultRedocTemplate     == "defaultRedocTemplate"

BuiltinTemplates == {defaultElementsTemplate, defaultScalarTemplate,
                     defaultSwaggerUITemplate, defaultRedocTemplate}

ElementsRouterHash    == "hash"
ElementsRouterHistory == "history"
ElementsRouterMemory  == "memory"

ElementsLayoutSidebar == "sidebar"
ElementsLayoutStacked == "stacked"

ElementsTryItCredentialsPolicyOmit == "omit"
ElementsTryItCredentialsInclude    == "include"

ScalarLayoutModern  == "modern"
ScalarLayoutClassic == "classic"
ScalarThemeDefault  == "default"
ScalarThemeMoon     == "moon"

DefaultElementsConfig ==
    [Spec |-> "", SpecUrl |-> "",
     Title |-> "API documentation with Stoplight Elements",
     Template |-> defaultElementsTemplate,
     Router |-> ElementsRouterHistory,
     Layout |-> ElementsLayoutSidebar,
     HideInternal |-> FALSE, HideTryIt |-> FALSE, HideSchemas |-> FALSE,
     HideExport |-> FALSE, TryItCorsProxy |-> "",
     TryItCredentialsPolicy |-> ElementsTryItCredentialsPolicyOmit,
     Logo |-> ""]

DefaultScalarConfig ==
    [Spec |-> "", SpecUrl |-> "",
     Title |-> "API documentation with Scalar",
     Template |-> defaultScalarTemplate,
     IsEditable |-> FALSE, ProxyUrl |-> "", DarkMode |-> FALSE,
     Layout |-> ScalarLayoutModern, Theme |-> ScalarThemeDefault,
     HideSidebar |-> FALSE, SearchHotKey |-> ""]

DefaultSwaggerUIConfig ==
    [Spec |-> "", SpecUrl |-> "",
     Title |-> "API documentation with Swagger UI",
     Template |-> defaultSwaggerUITemplate,
     DeepLinking |-> FALSE, DisplayOperationId |-> FALSE]

\* the Go zero value fills DisableSearch, which the literal leaves out
DefaultRedocConfig ==
    [Spec |-> "", SpecUrl |-> "",
     Title |-> "API documentation with Redoc",
     Template |-> defaultRedocTemplate,
     DisableSearch |-> FALSE,
     MinCharacterLengthToInitSearch |-> 0]

DefaultConfig(prov) ==
    CASE prov = "elements"  -> DefaultElementsConfig
      [] prov = "scalar"    -> DefaultScalarConfig
      [] prov = "swaggerui" -> DefaultSwaggerUIConfig
      [] prov = "redoc"     -> DefaultRedocConfig

(* The inputs the embedding application may pass. *)

\* an inline spec is an opaque string; this one holds characters that a
\* template or an escaper would change
InlineSpec == "openapi: 3.0.0 # <{{ .Title }}> & \"pets\""

Specs == {"", InlineSpec}

\* an https URL with a query, and a URL with another scheme
SpecUrls == {"", "https://example.com/api.yaml?a=1&b=2",
             "ftp://example.com/api.yaml"}

Titles == {"", "Pets & Co"}

\* user templates: one that executes, one that does not parse (unclosed
\* action), one that parses and fails when executed (no such field)
customTemplate    == "<h1>{{ .Title }}</h1><p>{{ .BasePath }}</p>"
malformedTemplate == "<h1>{{ .Title </h1>"
badFieldTemplate  == "<h1>{{ .NoSuchField }}</h1>"

Templates == {"", customTemplate, malformedTemplate, badFieldTemplate}

\* mount prefixes: the root, with and without trailing slash, and one that
\* path.Clean changes
Prefixes == {"/", "/docs", "/docs/", "/docs//"}

\* Option fields vary with the templates that execute; a template that fails
\* to parse or to execute comes with the options left empty.
PlainTemplate(tm) == tm \in {"", customTemplate}

ElementsConfigs ==
    {LET b == (cp = ElementsTryItCredentialsInclude) IN
     [Spec |-> s, SpecUrl |-> u, Title |-> t, Template |-> tm,
      Router |-> r, Layout |-> l,
      HideInternal |-> b, HideTryIt |-> b, HideSchemas |-> b, HideExport |-> b,
      TryItCorsProxy |-> IF b THEN "https://proxy.example.com" ELSE "",
      TryItCredentialsPolicy |-> cp,
      Logo |-> IF b THEN "/logo.png" ELSE ""] :
        s \in Specs, u \in SpecUrls, t \in Titles,
        tm \in {x \in Templates : PlainTemplate(x)},
        r \in {"", ElementsRouterHash, ElementsRouterHistory, ElementsRouterMemory},
        l \in {"", ElementsLayoutStacked},
        cp \in {"", ElementsTryItCredentialsPolicyOmit, ElementsTryItCredentialsInclude}}
    \cup
    {[Spec |-> s, SpecUrl |-> u, Title |-> t, Template |-> tm,
      Router |-> "", Layout |-> "",
      HideInternal |-> FALSE, HideTryIt |-> FALSE, HideSchemas |-> FALSE,
      HideExport |-> FALSE, TryItCorsProxy |-> "",
      TryItCredentialsPolicy |-> "", Logo |-> ""] :
        s \in Specs, u \in SpecUrls, t \in Titles,
        tm \in {x \in Templates : ~PlainTemplate(x)}}

ScalarConfigs ==
    {LET b == (th # "") IN
     [Spec |-> s, SpecUrl |-> u, Title |-> t, Template |-> tm,
      IsEditable |-> b, ProxyUrl |-> IF b THEN "https://proxy.example.com" ELSE "",
      DarkMode |-> b, Layout |-> l, Theme |-> th,
      HideSidebar |-> h, SearchHotKey |-> IF b THEN "k" ELSE ""] :
        s \in Specs, u \in SpecUrls, t \in Titles,
        tm \in {x \in Templates : PlainTemplate(x)},
        l \in {"", ScalarLayoutModern, ScalarLayoutClassic},
        th \in {"", ScalarThemeMoon},
        h \in BOOLEAN}
    \cup
    {[Spec |-> s, SpecUrl |-> u, Title |-> t, Template |-> tm,
      IsEditable |-> FALSE, ProxyUrl |-> "", DarkMode |-> FALSE,
      Layout |-> "", Theme |-> "", HideSidebar |-> FALSE, SearchHotKey |-> ""] :
        s \in Specs, u \in SpecUrls, t \in Titles,
        tm \in {x \in Templates : ~PlainTemplate(x)}}

SwaggerUIConfigs ==
    {c \in [Spec : Specs, SpecUrl : SpecUrls, Title : Titles, Template : Templates,
            DeepLinking : BOOLEAN, DisplayOperationId : BOOLEAN] :
        PlainTemplate(c.Template) \/ (~c.DeepLinking /\ ~c.DisplayOperationId)}

RedocConfigs ==
    {c \in [Spec : Specs, SpecUrl : SpecUrls, Title : Titles, Template : Templates,
            DisableSearch : BOOLEAN, MinCharacterLengthToInitSearch : {0, 3}] :
        PlainTemplate(c.Template)
            \/ (~c.DisableSearch /\ c.MinCharacterLengthToInitSearch = 0)}

Configs(prov) ==
    CASE prov = "elements"  -> ElementsConfigs
      [] prov = "scalar"    -> ScalarConfigs
      [] prov = "swaggerui" -> SwaggerUIConfigs
      [] prov = "redoc"     -> RedocConfigs

----------------------------------------------------------------------------
(* Templates: htmltemplate.New("T").Parse and Template.Execute *)

RECURSIVE TrimSpace(_)
TrimSpace(s) ==
    IF s # "" /\ Char(s, 1) = " " THEN TrimSpace(SubSeq(s, 2, Len(s)))
    ELSE IF s # "" /\ Char(s, Len(s)) = " " THEN TrimSpace(SubSeq(s, 1, Len(s) - 1))
    ELSE s

TextNode(t)  == [kind |-> "text", val |-> t]
FieldNode(n) == [kind |-> "field", val |-> n]

\* Parse of a user template from position pos: text up to the next "{{",
\* then an action that must be closed by "}}" and must be a field (.Name).
RECURSIVE ParseFrom(_, _)
ParseFrom(text, pos) ==
    LET open == IndexFrom(text, "{{", pos) IN
    IF open = 0
    THEN [err |-> FALSE,
          nodes |-> IF pos > Len(text) THEN <<>>
                    ELSE <<TextNode(SubSeq(text, pos, Len(text)))>>]
    ELSE
        LET close == IndexFrom(text, "}}", open + 2)
            inner == TrimSpace(SubSeq(text, open + 2, close - 1))
        IN  IF close = 0 \/ inner = "" \/ Char(inner, 1) # "."
            THEN [err |-> TRUE, nodes |-> <<>>]
            ELSE LET rest == ParseFrom(text, close + 2)
                     head == IF open > pos
                             THEN <<TextNode(SubSeq(text, pos, open - 1))>>
                             ELSE <<>>
                 IN  [err |-> rest.err,
                      nodes |-> IF rest.err THEN <<>>
                                ELSE head \o <<FieldNode(SubSeq(inner, 2, Len(inner)))>>
                                          \o rest.nodes]

\* the template a factory holds before / without Parse having succeeded
NoTemplate == [parsed |-> FALSE, builtin |-> "", nodes |-> <<>>]

\* htmltemplate.New("T").Parse(text): err, or the parsed template
Parse(text) ==
    IF text \in BuiltinTemplates
    THEN [err |-> FALSE,
          tmpl |-> [parsed |-> TRUE, builtin |-> text, nodes |-> <<>>]]
    ELSE LET r == ParseFrom(text, 1)
         IN  [err |-> r.err,
              tmpl |-> IF r.err THEN NoTemplate
                       ELSE [parsed |-> TRUE, builtin |-> "", nodes |-> r.nodes]]

\* Field lookup of a template action on a params struct that embeds the
\* provider's config under the name `embedded`: Go resolves a field name to
\* the shallowest field, so a field of the params struct itself shadows a
\* field of the embedded config with the same name.
HasField(params, embedded, name) ==
    \/ name \in (DOMAIN params) \ {embedded}
    \/ name \in DOMAIN params[embedded]

\* a lookup that prefers the embedded config's field over the outer one
Field_EmbeddedFirst(params, embedded, name) ==
    IF name \in DOMAIN params[embedded]
    THEN params[embedded][name]
    ELSE params[name]

Field(params, embedded, name) ==
    IF name \in (DOMAIN params) \ {embedded}
    THEN params[name]
    ELSE params[embedded][name]

\* Execute of a parsed user template: text is copied, a field is looked up
\* and written HTML-escaped; a field the params do not have is an error.
RECURSIVE ExecuteNodes(_, _, _)
ExecuteNodes(nodes, params, embedded) ==
    IF nodes = <<>> THEN [err |-> FALSE, out |-> ""]
    ELSE LET n    == Head(nodes)
             rest == ExecuteNodes(Tail(nodes), params, embedded)
         IN  IF n.kind = "text"
             THEN [err |-> rest.err, out |-> n.val \o rest.out]
             ELSE IF ~HasField(params, embedded, n.val)
                  THEN [err |-> TRUE, out |-> ""]
                  ELSE [err |-> rest.err,
                        out |-> HTMLEscape(Field(params, embedded, n.val)) \o rest.out]

\* A rendered page: the text of <title>, the attributes of the viewer's
\* element, the members of the JSON configuration object, and (for a user
\* template) the text written.
Page(title, attrs, configuration, text) ==
    [title |-> title, attrs |-> attrs, configuration |-> configuration,
     text |-> text]

\* defaultElementsTemplate executed on elementsTemplateParams
ExecuteElementsTemplate(params) ==
    LET F(name) == Field(params, "ElementsConfig", name) IN
    Page(HTMLEscape(F("Title")),
         <<<<"apiDescriptionUrl",
             AttrValue("apidescriptionurl", F("ApiDescriptionUrl"))>>>>
         \o Opt(F("BasePath") # "", "basePath", AttrValue("basepath", F("BasePath")))
         \o Opt(F("HideInternal"), "hideInternal", "true")
         \o Opt(F("HideTryIt"), "hideTryIt", "true")
         \o Opt(F("HideSchemas"), "hideSchemas", "true")
         \o Opt(F("HideExport"), "hideExport", "true")
         \o Opt(F("TryItCorsProxy") # "", "tryItCorsProxy",
                AttrValue("tryitcorsproxy", F("TryItCorsProxy")))
         \o Opt(F("TryItCredentialsPolicy") # ""
                    /\ F("TryItCredentialsPolicy") # "omit",
                "tryItCredentialsPolicy",
                AttrValue("tryitcredentialspolicy", F("TryItCredentialsPolicy")))
         \o <<<<"layout", AttrValue("layout", F("Layout"))>>>>
         \o Opt(F("Logo") # "", "logo", AttrValue("logo", F("Logo")))
         \o <<<<"router", AttrValue("router", F("Router"))>>>>,
         <<>>, "")

\* json.Marshal of apiReferenceConfiguration: omitempty drops a false, ""
\* member; spec and showSidebar are always written
MarshalApiReferenceConfiguration(v) ==
    Opt(v.IsEditable, "isEditable", JSONBool(v.IsEditable))
    \o <<<<"spec", <<<<"url", JSONString(v.Spec.URL)>>>>>>>>
    \o Opt(v.ProxyUrl # "", "proxyUrl", JSONString(v.ProxyUrl))
    \o Opt(v.DarkMode, "darkMode", JSONBool(v.DarkMode))
    \o Opt(v.Layout # "", "layout", JSONString(v.Layout))
    \o Opt(v.Theme # "", "theme", JSONString(v.Theme))
    \o <<<<"showSidebar", JSONBool(v.ShowSidebar)>>>>
    \o Opt(v.SearchHotKey # "", "searchHotKey", JSONString(v.SearchHotKey))

\* defaultScalarTemplate executed on scalarTemplateParams: the JS value is
\* written as it is
ExecuteScalarTemplate(params) ==
    LET F(name) == Field(params, "ScalarConfig", name) IN
    Page(HTMLEscape(F("Title")), <<>>, F("ApiReferenceConfiguration"), "")

\* swaggerUIConfiguration with no omitempty on its boolean members
MarshalSwaggerUIConfiguration_NoOmitEmpty(v) ==
    <<<<"url", JSONString(v.Url)>>, <<"dom_id", JSONString(v.DomId)>>,
      <<"deepLinking", JSONBool(v.DeepLinking)>>,
      <<"displayOperationId", JSONBool(v.DisplayOperationId)>>>>

\* json.Marshal of swaggerUIConfiguration
MarshalSwaggerUIConfiguration(v) ==
    <<<<"url", JSONString(v.Url)>>, <<"dom_id", JSONString(v.DomId)>>>>
    \o Opt(v.DeepLinking, "deepLinking", JSONBool(v.DeepLinking))
    \o Opt(v.DisplayOperationId, "displayOperationId",
           JSONBool(v.DisplayOperationId))

\* defaultSwaggerUITemplate executed on swaggerUITemplateParams
ExecuteSwaggerUITemplate(params) ==
    LET F(name) == Field(params, "SwaggerUIConfig", name) IN
    Page(HTMLEscape(F("Title")), <<>>, F("SwaggerUIConfiguration"), "")

\* defaultRedocTemplate executed on redocTemplateParams
ExecuteRedocTemplate(params) ==
    LET F(name) == Field(params, "RedocConfig", name) IN
    Page(HTMLEscape(F("Title")),
         <<<<"spec-url", AttrValue("spec-url", F("SpecUrl"))>>>>
         \o Opt(F("DisableSearch"), "disable-search", "true")
         \o Opt(F("MinCharacterLengthToInitSearch") # 0,
                "min-character-length-to-init-search",
                ToString(F("MinCharacterLengthToInitSearch"))),
         <<>>, "")

\* pageTmpl.Execute(buf, params): err, or the page written to buf
Execute(tmpl, params, embedded) ==
    CASE tmpl.builtin = defaultElementsTemplate ->
             [err |-> FALSE, page |-> ExecuteElementsTemplate(params)]
      [] tmpl.builtin = defaultScalarTemplate ->
             [err |-> FALSE, page |-> ExecuteScalarTemplate(params)]
      [] tmpl.builtin = defaultSwaggerUITemplate ->
             [err |-> FALSE, page |-> ExecuteSwaggerUITemplate(params)]
      [] tmpl.builtin = defaultRedocTemplate ->
             [err |-> FALSE, page |-> ExecuteRedocTemplate(params)]
      [] OTHER ->
             LET r == ExecuteNodes(tmpl.nodes, params, embedded)
             IN  [err |-> r.err, page |-> Page("", <<>>, <<>>, r.out)]

----------------------------------------------------------------------------
(* Responses *)

NoRequest  == [p |-> "", relPath |-> ""]

Response(kind, status, contentType, location, body, page) ==
    [kind |-> kind, status |-> status, contentType |-> contentType,
     location |-> location, body |-> body, page |-> page]

NoPage == Page("", <<>>, <<>>, "")

NoResponse == Response("none", 0, "", "", "", NoPage)

\* c.Blob(code, contentType, b)
Blob(code, contentType, b) == Response("blob", code, contentType, "", b, NoPage)

\* c.Redirect(code, url)
Redirect(code, url) == Response("redirect", code, "", url, "", NoPage)

\* c.HTML(code, html)
HTML(code, page) == Response("html", code, MIMETextHTML, "", "", page)

\* panic(err) inside the handler: no response is written by the handler
HandlerPanic == Response("panic", 0, "", "", "", NoPage)

\* echo's answer when no route matches
NotFoundResponse == Response("notfound", 404, "", "", "", NoPage)

----------------------------------------------------------------------------
(* Handler factories.  Each returns either the panic value construction    *)
(* stops with, or what the returned closure holds: the default-filled      *)
(* config, useSpecUrl and the parsed template.                             *)

SpecPanic  == "either Spec or SpecUrl must be set"
ParsePanic == "template: T: parse error"

Constructed(cfg, tmpl) ==
    [panic |-> "", config |-> cfg, useSpecUrl |-> (cfg.Spec = ""),
     pageTmpl |-> tmpl]

Panicked(cfg, msg) ==
    [panic |-> msg, config |-> cfg, useSpecUrl |-> FALSE, pageTmpl |-> NoTemplate]

\* `IF cfg.f = "" THEN default ELSE cfg.f` for one field
Filled(cfg, f, default) == IF cfg[f] = "" THEN default[f] ELSE cfg[f]

\* a factory that leaves the spec-source check out
SpecCheckAndParse_NoSourceCheck(c) ==
    LET r == Parse(c.Template)
    IN  IF r.err THEN Panicked(c, ParsePanic)
        ELSE Constructed(c, r.tmpl)

\* a factory that drops the error of Parse instead of panicking (no Must)
SpecCheckAndParse_NoMust(c) ==
    IF c.Spec = "" /\ c.SpecUrl = "" THEN Panicked(c, SpecPanic)
    ELSE Constructed(c, Parse(c.Template).tmpl)

\* the spec-source check and htmltemplate.Must(...Parse(config.Template)),
\* the same in the four factories
SpecCheckAndParse(c) ==
    IF c.Spec = "" /\ c.SpecUrl = "" THEN Panicked(c, SpecPanic)
    ELSE LET r == Parse(c.Template)
         IN  IF r.err THEN Panicked(c, ParsePanic)
             ELSE Constructed(c, r.tmpl)

ElementsDocumentsHandler(cfg) ==
    LET c == [cfg EXCEPT
                !.Template = Filled(cfg, "Template", DefaultElementsConfig),
                !.Router   = Filled(cfg, "Router", DefaultElementsConfig),
                !.Layout   = Filled(cfg, "Layout", DefaultElementsConfig),
                !.Title    = Filled(cfg, "Title", DefaultElementsConfig),
                !.TryItCredentialsPolicy =
                    Filled(cfg, "TryItCredentialsPolicy", DefaultElementsConfig)]
    IN  SpecCheckAndParse(c)

ScalarDocumentsHandler(cfg) ==
    LET c == [cfg EXCEPT
                !.Template = Filled(cfg, "Template", DefaultScalarConfig),
                !.Title    = Filled(cfg, "Title", DefaultScalarConfig)]
    IN  SpecCheckAndParse(c)

SwaggerUIDocumentsHandler(cfg) ==
    LET c == [cfg EXCEPT
                !.Template = Filled(cfg, "Template", DefaultSwaggerUIConfig),
                !.Title    = Filled(cfg, "Title", DefaultSwaggerUIConfig)]
    IN  SpecCheckAndParse(c)

RedocDocumentsHandler(cfg) ==
    LET c == [cfg EXCEPT
                !.Template = Filled(cfg, "Template", DefaultRedocConfig),
                !.Title    = Filled(cfg, "Title", DefaultRedocConfig)]
    IN  SpecCheckAndParse(c)

----------------------------------------------------------------------------
(* The closures the factories return, applied to an echo context c:        *)
(* c.p is c.Request().URL.Path, c.relPath is c.Param("*").                 *)

\* strings.TrimRight(p, relPath) in place of strings.TrimSuffix: drops every
\* trailing character of p that occurs in relPath
BasePath_TrimRight(c) ==
    LET keep == {n \in 0..Len(c.p) :
                    n = 0 \/ ~ContainsChar(c.relPath, Char(c.p, n))}
        last == CHOOSE n \in keep : \A k \in keep : k <= n
    IN  SubSeq(c.p, 1, last)

\* strings.TrimSuffix(p, relPath)
BasePath(c) == TrimSuffix(c.p, c.relPath)

\* string concatenation in place of path.Join
SyntheticSpecUrl_Concat(basePath) == basePath \o "/openapi-spec"

\* path.Join(basePath, "openapi-spec")
SyntheticSpecUrl(basePath) == Join(basePath, "openapi-spec")

\* a passthrough test that does not look at useSpecUrl
IsPassthrough_IgnoresUseSpecUrl(c) ==
    HasSuffix(c.p, SyntheticSpecUrl(TrimSuffix(c.p, c.relPath)))

\* the specUrl local of the closure
SpecUrlOf(c) ==
    IF ~useSpecUrl THEN SyntheticSpecUrl(BasePath(c)) ELSE config.SpecUrl

\* `if !useSpecUrl { ...; if strings.HasSuffix(p, specUrl) {`
IsPassthrough(c) == ~useSpecUrl /\ HasSuffix(c.p, SpecUrlOf(c))

\* template execution and the answer that follows it
Render(params, embedded) ==
    LET r == Execute(pageTmpl, params, embedded)
    IN  IF r.err THEN HandlerPanic ELSE HTML(StatusOK, r.page)

\* an Elements closure that redirects sub-paths whatever the router mode
ElementsHandlerFunc_NoRouterCheck(c) ==
    IF IsPassthrough(c)
    THEN Blob(StatusOK, MIMETextPlain, config.Spec)
    ELSE IF c.relPath # ""
    THEN Redirect(StatusFound, BasePath(c))
    ELSE Render([ElementsConfig |-> config, BasePath |-> BasePath(c),
                 ApiDescriptionUrl |-> SpecUrlOf(c)], "ElementsConfig")

ElementsHandlerFunc(c) ==
    IF IsPassthrough(c)
    THEN Blob(StatusOK, MIMETextPlain, config.Spec)
    ELSE IF config.Router # ElementsRouterHistory /\ c.relPath # ""
    THEN Redirect(StatusFound, BasePath(c))
    ELSE Render([ElementsConfig |-> config, BasePath |-> BasePath(c),
                 ApiDescriptionUrl |-> SpecUrlOf(c)], "ElementsConfig")

\* a Scalar closure that tests the remainder before the passthrough
ScalarHandlerFunc_RedirectFirst(c) ==
    IF c.relPath # ""
    THEN Redirect(StatusFound, BasePath(c))
    ELSE IF IsPassthrough(c)
    THEN Blob(StatusOK, MIMETextPlain, config.Spec)
    ELSE LET apiReferenceConfiguration ==
                 [IsEditable |-> config.IsEditable,
                  Spec |-> [URL |-> SpecUrlOf(c)],
                  ProxyUrl |-> config.ProxyUrl,
                  DarkMode |-> config.DarkMode,
                  Layout |-> config.Layout,
                  Theme |-> config.Theme,
                  ShowSidebar |-> ~config.HideSidebar,
                  SearchHotKey |-> config.SearchHotKey]
         IN  Render([ScalarConfig |-> config, BasePath |-> BasePath(c),
                     ApiReferenceConfiguration |->
                         MarshalApiReferenceConfiguration(apiReferenceConfiguration)],
                    "ScalarConfig")

ScalarHandlerFunc(c) ==
    IF IsPassthrough(c)
    THEN Blob(StatusOK, MIMETextPlain, config.Spec)
    ELSE IF c.relPath # ""
    THEN Redirect(StatusFound, BasePath(c))
    ELSE LET apiReferenceConfiguration ==
                 [IsEditable |-> config.IsEditable,
                  Spec |-> [URL |-> SpecUrlOf(c)],
                  ProxyUrl |-> config.ProxyUrl,
                  DarkMode |-> config.DarkMode,
                  Layout |-> config.Layout,
                  Theme |-> config.Theme,
                  ShowSidebar |-> ~config.HideSidebar,
                  SearchHotKey |-> config.SearchHotKey]
         IN  Render([ScalarConfig |-> config, BasePath |-> BasePath(c),
                     ApiReferenceConfiguration |->
                         MarshalApiReferenceConfiguration(apiReferenceConfiguration)],
                    "ScalarConfig")

SwaggerUIHandlerFunc(c) ==
    IF IsPassthrough(c)
    THEN Blob(StatusOK, MIMETextPlain, config.Spec)
    ELSE IF c.relPath # ""
    THEN Redirect(StatusFound, BasePath(c))
    ELSE LET swaggerUIConfiguration ==
                 [Url |-> SpecUrlOf(c), DomId |-> "#swagger-ui",
                  DeepLinking |-> config.DeepLinking,
                  DisplayOperationId |-> config.DisplayOperationId]
         IN  Render([SwaggerUIConfig |-> config, BasePath |-> BasePath(c),
                     SwaggerUIConfiguration |->
                         MarshalSwaggerUIConfiguration(swaggerUIConfiguration)],
                    "SwaggerUIConfig")

RedocHandlerFunc(c) ==
    IF IsPassthrough(c)
    THEN Blob(StatusOK, MIMETextPlain, config.Spec)
    ELSE IF c.relPath # ""
    THEN Redirect(StatusFound, BasePath(c))
    ELSE Render([RedocConfig |-> config, BasePath |-> BasePath(c),
                 SpecUrl |-> SpecUrlOf(c)], "RedocConfig")

\* the closure of the provider the application mounted
Serve(c) ==
    CASE provider = "elements"  -> ElementsHandlerFunc(c)
      [] provider = "scalar"    -> ScalarHandlerFunc(c)
      [] provider = "swaggerui" -> SwaggerUIHandlerFunc(c)
      [] provider = "redoc"     -> RedocHandlerFunc(c)

----------------------------------------------------------------------------
(* The echo router: e.GET(pathPrefix+"*", h) and the dispatch of a request *)

\* the static part of a route pattern that ends in "*"
RoutePrefix(route) == SubSeq(route, 1, Len(route) - 1)

Matches(route, p) == HasPrefix(p, RoutePrefix(route))

\* c.Param("*") of a request the route matched: what follows the prefix
Wildcard(route, p) == SubSeq(p, Len(RoutePrefix(route)) + 1, Len(p))

\* the remainders requested under a mount, among them one that repeats the
\* path of the synthetic spec endpoint and one that is the prefix again
RelPaths(prefix) ==
    {"", "/", "/x", "openapi-spec", "/openapi-spec", "/x/openapi-spec",
     Join(prefix, "openapi-spec"), prefix}

\* the request paths a client sends: under the mount, and the path the page
\* names as its spec reference
RequestPaths(prefix) ==
    {prefix \o r : r \in RelPaths(prefix)} \cup {Join(prefix, "openapi-spec")}

\* the requests the server handles at once
MaxInFlight == 2

Requests == 1..MaxInFlight

\* a request no goroutine has been started for
Idle == [pc |-> "idle", c |-> NoRequest, resp |-> NoResponse, written |-> <<>>]

----------------------------------------------------------------------------
(* State machine *)

Init ==
    /\ provider \in Providers
    /\ pathPrefix \in Prefixes
    /\ userConfig \in Configs(provider)
    /\ config = userConfig
    /\ useSpecUrl = FALSE
    /\ pageTmpl = NoTemplate
    /\ routes = {}
    /\ phase = "new"
    /\ panicValue = ""
    /\ request = NoRequest
    /\ response = NoResponse
    /\ inflight = [i \in Requests |-> Idle]
    /\ buffers = [i \in Requests |-> <<>>]
    /\ hops = 0

\* XxxDocuments(e, pathPrefix, config): e.GET(pathPrefix+"*", XxxDocumentsHandler(config));
\* the argument is evaluated first, so a panic of the factory leaves no route
Register(h) ==
    /\ phase = "new"
    /\ IF h.panic # ""
       THEN /\ phase' = "panicked"
            /\ panicValue' = h.panic
            /\ UNCHANGED <<config, useSpecUrl, pageTmpl, routes>>
       ELSE /\ phase' = "serving"
            /\ config' = h.config
            /\ useSpecUrl' = h.useSpecUrl
            /\ pageTmpl' = h.pageTmpl
            /\ routes' = routes \cup {pathPrefix \o "*"}
            /\ UNCHANGED panicValue
    /\ UNCHANGED <<provider, pathPrefix, userConfig, request, response,
                   inflight, buffers, hops>>

ElementsDocuments ==
    provider = "elements" /\ Register(ElementsDocumentsHandler(userConfig))

ScalarDocuments ==
    provider = "scalar" /\ Register(ScalarDocumentsHandler(userConfig))

SwaggerUIDocuments ==
    provider = "swaggerui" /\ Register(SwaggerUIDocumentsHandler(userConfig))

RedocDocuments ==
    provider = "redoc" /\ Register(RedocDocumentsHandler(userConfig))

\* the context echo hands to the handler of the route that matches p
Context(route, p) == [p |-> p, relPath |-> Wildcard(route, p)]

\* what a request leaves alone: the closure only reads what it closed over
Closure == UNCHANGED <<provider, pathPrefix, userConfig, config, useSpecUrl,
                       pageTmpl, routes, phase, panicValue>>

\* a closure that assigns to the config it closed over while it serves
Frame_WritesConfig ==
    /\ config' = [config EXCEPT !.Title = "served"]
    /\ UNCHANGED <<provider, pathPrefix, userConfig, useSpecUrl,
                   pageTmpl, routes, phase, panicValue>>
    /\ UNCHANGED <<inflight, buffers, hops>>

\* a request answered in one step, by a client that follows no redirect
Frame == Closure /\ UNCHANGED <<inflight, buffers, hops>>

ElementsRequest ==
    /\ phase = "serving" /\ provider = "elements"
    /\ \E route \in routes, p \in RequestPaths(pathPrefix) :
          /\ Matches(route, p)
          /\ request' = Context(route, p)
          /\ response' = ElementsHandlerFunc(Context(route, p))
    /\ Frame

ScalarRequest ==
    /\ phase = "serving" /\ provider = "scalar"
    /\ \E route \in routes, p \in RequestPaths(pathPrefix) :
          /\ Matches(route, p)
          /\ request' = Context(route, p)
          /\ response' = ScalarHandlerFunc(Context(route, p))
    /\ Frame

SwaggerUIRequest ==
    /\ phase = "serving" /\ provider = "swaggerui"
    /\ \E route \in routes, p \in RequestPaths(pathPrefix) :
          /\ Matches(route, p)
          /\ request' = Context(route, p)
          /\ response' = SwaggerUIHandlerFunc(Context(route, p))
    /\ Frame

RedocRequest ==
    /\ phase = "serving" /\ provider = "redoc"
    /\ \E route \in routes, p \in RequestPaths(pathPrefix) :
          /\ Matches(route, p)
          /\ request' = Context(route, p)
          /\ response' = RedocHandlerFunc(Context(route, p))
    /\ Frame

\* a request path no route matches is answered by echo, not by a handler
NotFound ==
    /\ phase = "serving"
    /\ \E p \in RequestPaths(pathPrefix) :
          /\ \A route \in routes : ~Matches(route, p)
          /\ request' = [p |-> p, relPath |-> ""]
          /\ response' = NotFoundResponse
    /\ Frame

Next ==
    \/ ElementsDocuments
    \/ ScalarDocuments
    \/ SwaggerUIDocuments
    \/ RedocDocuments
    \/ ElementsRequest
    \/ ScalarRequest
    \/ SwaggerUIRequest
    \/ RedocRequest
    \/ NotFound

Spec == Init /\ [][Next]_vars

----------------------------------------------------------------------------
(* Several requests in flight: net/http runs the closure in one goroutine   *)
(* per request, and the goroutines interleave between the steps of the      *)
(* closure: the decision (passthrough, redirect or render), the execution   *)
(* of the template into the buffer, and c.HTML with the buffer's content.   *)

\* the configurations that leave every option but the spec source and the
\* Elements router at its zero value
PlainConfigs(prov) ==
    {c \in Configs(prov) :
        /\ c.Title = "" /\ c.Template = ""
        /\ CASE prov = "elements"  ->
                   c.Layout = "" /\ c.TryItCredentialsPolicy = ""
             [] prov = "scalar"    ->
                   c.Layout = "" /\ c.Theme = "" /\ ~c.HideSidebar
             [] prov = "swaggerui" ->
                   ~c.DeepLinking /\ ~c.DisplayOperationId
             [] prov = "redoc"     ->
                   ~c.DisableSearch /\ c.MinCharacterLengthToInitSearch = 0}

\* the paths requested at once: the mount, its spec endpoint, a sub-path
ConcurrentPaths(prefix) ==
    {prefix, Join(prefix, "openapi-spec"), prefix \o "/x"}

InitConcurrent ==
    /\ Init
    /\ pathPrefix = "/docs"
    /\ userConfig \in PlainConfigs(provider)

\* a buffer shared by every request
BufferOf_Shared(i) == 1

\* `buf := new(bytes.Buffer)`: the buffer of request i is its own
BufferOf(i) == i

Others == UNCHANGED <<request, response, hops>>

\* echo dispatches a request to the closure in a new goroutine
Accept(i) ==
    /\ phase = "serving"
    /\ inflight[i].pc = "idle"
    /\ \E route \in routes, p \in ConcurrentPaths(pathPrefix) :
          /\ Matches(route, p)
          /\ inflight' = [inflight EXCEPT ![i].pc = "accepted",
                                          ![i].c = Context(route, p)]
    /\ UNCHANGED buffers
    /\ Closure /\ Others

\* the closure up to the allocation of the buffer: the passthrough and the
\* redirect answer at once, a render goes on
Decide(i) ==
    /\ inflight[i].pc = "accepted"
    /\ LET r == Serve(inflight[i].c)
       IN  IF r.kind \in {"blob", "redirect"}
           THEN inflight' = [inflight EXCEPT ![i].pc = "done", ![i].resp = r]
           ELSE inflight' = [inflight EXCEPT ![i].pc = "render"]
    /\ UNCHANGED buffers
    /\ Closure /\ Others

\* pageTmpl.Execute(buf, params), or the panic with its error
ExecuteTemplate(i) ==
    /\ inflight[i].pc = "render"
    /\ LET r == Serve(inflight[i].c)
       IN  IF r.kind = "panic"
           THEN /\ inflight' = [inflight EXCEPT ![i].pc = "done", ![i].resp = r]
                /\ UNCHANGED buffers
           ELSE /\ inflight' = [inflight EXCEPT ![i].pc = "written"]
                /\ buffers' = [buffers EXCEPT ![BufferOf(i)] = Append(@, r.page)]
    /\ Closure /\ Others

\* c.HTML(http.StatusOK, buf.String())
Respond(i) ==
    /\ inflight[i].pc = "written"
    /\ LET buf == buffers[BufferOf(i)]
       IN  inflight' = [inflight EXCEPT ![i].pc = "done",
                                       ![i].resp = HTML(StatusOK, Head(buf)),
                                       ![i].written = buf]
    /\ UNCHANGED buffers
    /\ Closure /\ Others

AcceptRequest == \E i \in Requests : Accept(i)

DecideRequest == \E i \in Requests : Decide(i)

ExecuteRequest == \E i \in Requests : ExecuteTemplate(i)

RespondRequest == \E i \in Requests : Respond(i)

NextConcurrent ==
    \/ ElementsDocuments
    \/ ScalarDocuments
    \/ SwaggerUIDocuments
    \/ RedocDocuments
    \/ AcceptRequest
    \/ DecideRequest
    \/ ExecuteRequest
    \/ RespondRequest

SpecConcurrent == InitConcurrent /\ [][NextConcurrent]_vars

----------------------------------------------------------------------------
(* A client that sends request targets as they go on the wire and follows   *)
(* redirects. net/url keeps the decoded path in URL.Path and the target in  *)
(* URL.RawPath when the target is not the default encoding of the path;     *)
(* echo routes on RawPath when it is set, so c.Param("*") is cut from the   *)
(* target as sent while the closure reads the decoded URL.Path.             *)

\* the octet a percent-escape of the targets stands for
Unhex(hh) ==
    CASE hh = "78" -> "x"
      [] hh = "2F" -> "/"
      [] hh = "2f" -> "/"
      [] OTHER     -> "?"

\* url.PathUnescape
RECURSIVE Unescape(_)
Unescape(s) ==
    IF s = "" THEN ""
    ELSE IF Char(s, 1) = "%" /\ Len(s) >= 3
    THEN Unhex(SubSeq(s, 2, 3)) \o Unescape(SubSeq(s, 4, Len(s)))
    ELSE Char(s, 1) \o Unescape(SubSeq(s, 2, Len(s)))

\* the default encoding of a path: url.URL.EscapedPath of a path with no
\* RawPath (letters, "-" and "/" stay; "%" and the space are escaped)
RECURSIVE EscapePath(_)
EscapePath(s) ==
    IF s = "" THEN ""
    ELSE (CASE Char(s, 1) = "%" -> "%25"
            [] Char(s, 1) = " " -> "%20"
            [] OTHER            -> Char(s, 1))
         \o EscapePath(SubSeq(s, 2, Len(s)))

\* url.URL.setPath: Path and RawPath of a request target
ParseTarget(t) ==
    [Path    |-> Unescape(t),
     RawPath |-> IF EscapePath(Unescape(t)) = t THEN "" ELSE t]

\* echo.GetPath: the path echo routes on
GetPath(url) == IF url.RawPath # "" THEN url.RawPath ELSE url.Path

\* the targets a client sends under a mount: the mount, sub-paths, the spec
\* endpoint, and sub-paths with a percent-escaped octet
Targets(prefix) ==
    {prefix, prefix \o "/x", Join(prefix, "openapi-spec"),
     prefix \o "/%78", prefix \o "/a%2Fb"}

\* the context of a request sent as target t that the route matches
TargetContext(route, t) ==
    [p |-> ParseTarget(t).Path,
     relPath |-> Wildcard(route, GetPath(ParseTarget(t)))]

\* the redirects a client follows before it gives up
MaxHops == 3

InitClient ==
    /\ Init
    /\ userConfig \in PlainConfigs(provider)

\* echo answers the request sent as target t
Dispatch(t) ==
    /\ phase = "serving"
    /\ IF \E route \in routes : Matches(route, GetPath(ParseTarget(t)))
       THEN \E route \in routes :
                /\ Matches(route, GetPath(ParseTarget(t)))
                /\ request' = TargetContext(route, t)
                /\ response' = Serve(TargetContext(route, t))
       ELSE /\ request' = [p |-> ParseTarget(t).Path, relPath |-> ""]
            /\ response' = NotFoundResponse
    /\ Closure
    /\ UNCHANGED <<inflight, buffers>>

\* the client sends a request of its own
Navigate ==
    /\ \E t \in Targets(pathPrefix) : Dispatch(t)
    /\ hops' = 0

\* the client follows the Location of the 302 it received
FollowRedirect ==
    /\ response.kind = "redirect"
    /\ hops < MaxHops
    /\ Dispatch(response.location)
    /\ hops' = hops + 1

NextClient ==
    \/ ElementsDocuments
    \/ ScalarDocuments
    \/ SwaggerUIDocuments
    \/ RedocDocuments
    \/ Navigate
    \/ FollowRedirect

SpecClient == InitClient /\ [][NextClient]_vars

----------------------------------------------------------------------------
(* Vocabulary of the properties *)

\* the handler (not echo) answered the last request
Answered == phase = "serving" /\ response.kind \notin {"none", "notfound"}

\* a configuration with only Spec set / only SpecUrl set (built-in template)
InlineOnly ==
    userConfig.Spec # "" /\ userConfig.SpecUrl = "" /\ userConfig.Template = ""

UrlOnly ==
    userConfig.Spec = "" /\ userConfig.SpecUrl # "" /\ userConfig.Template = ""

\* the path written P/openapi-spec in the HTTP surface
SpecEndpoint == Join(pathPrefix, "openapi-spec")

\* where a built-in page names the spec the viewer loads
SpecReference(page) ==
    CASE provider = "elements"  -> Get(page.attrs, "apiDescriptionUrl")
      [] provider = "redoc"     -> Get(page.attrs, "spec-url")
      [] provider = "scalar"    -> Get(Get(page.configuration, "spec"), "url")
      [] provider = "swaggerui" -> Get(page.configuration, "url")

\* the text that denotes the string s at that place: an HTML attribute value
\* or a JSON string
Written(s) ==
    IF provider \in {"elements", "redoc"} THEN HTMLEscape(s) ELSE JSONString(s)

\* a mount prefix path.Clean leaves alone, but for one trailing slash
CleanPrefix == Clean(pathPrefix) = pathPrefix \/ Clean(pathPrefix) \o "/" = pathPrefix

\* the user template, if any, executes
TemplateExecutes == userConfig.Template \in {"", customTemplate}

----------------------------------------------------------------------------
(* C1: with Spec and SpecUrl both empty, registration panics at              *)
(* construction (no handler, no route, no request is ever served); with one  *)
(* of them set and a template that parses, construction succeeds and the     *)
(* route is mounted.                                                         *)
C1_SpecSourceCheckedAtConstruction ==
    phase # "new" =>
        /\ (userConfig.Spec = "" /\ userConfig.SpecUrl = "") =>
               /\ phase = "panicked"
               /\ panicValue = SpecPanic
               /\ routes = {}
               /\ response = NoResponse
        /\ ((userConfig.Spec # "" \/ userConfig.SpecUrl # "")
                /\ userConfig.Template # malformedTemplate) =>
               /\ phase = "serving"
               /\ routes = {pathPrefix \o "*"}

C1_Witness ==
    /\ phase = "panicked"
    /\ userConfig.Spec = "" /\ userConfig.SpecUrl = ""
    /\ userConfig.Template = ""

(* C2 as stated: for every mount prefix P and an inline-only configuration,  *)
(* GET P is a 200 HTML page whose spec reference is P/openapi-spec, and GET  *)
(* P/openapi-spec reaches the same handler and returns 200 text/plain with   *)
(* the Spec string as its body.                                              *)
C2_Original ==
    (phase = "serving" /\ InlineOnly /\ response.kind # "none") =>
        /\ request.p = pathPrefix =>
               /\ response.kind = "html"
               /\ response.status = 200
               /\ SpecReference(response.page) = Written(SpecEndpoint)
        /\ request.p = SpecEndpoint =>
               /\ response.kind = "blob"
               /\ response.status = 200
               /\ response.contentType = MIMETextPlain
               /\ response.body = userConfig.Spec

(* C2, amended: the same for every mount prefix that is a cleaned path,      *)
(* with or without one trailing slash.                                       *)
C2_InlineSpecRoundTrip == CleanPrefix => C2_Original

C2_Witness ==
    /\ phase = "serving" /\ InlineOnly /\ pathPrefix = "/docs/"
    /\ request.p = SpecEndpoint
    /\ response.kind = "blob" /\ response.body = InlineSpec

(* C3: for Scalar, Swagger UI and Redoc, every GET to a sub-path of P        *)
(* (non-empty wildcard remainder) other than P/openapi-spec with an inline   *)
(* spec is answered 302 with Location P, never with the page or the spec.    *)
C3_SubPathsRedirect ==
    (/\ Answered
     /\ provider \in {"scalar", "swaggerui", "redoc"}
     /\ request.relPath # ""
     /\ ~(userConfig.Spec # "" /\ request.p = SpecEndpoint)) =>
        /\ response.kind = "redirect"
        /\ response.status = 302
        /\ response.location = pathPrefix

C5_SpecUrlRenderedUnchanged ==
    (Answered /\ UrlOnly /\ request.p = pathPrefix) =>
        /\ response.kind = "html"
        /\ response.status = 200
        /\ response.contentType = MIMETextHTML
        /\ SpecReference(response.page) = Written(userConfig.SpecUrl)

(* C6: with an inline spec, the handler answers with the raw spec if and     *)
(* only if the request path equals path.Join(basePath, "openapi-spec").      *)
C6_PassthroughOnlyOnExactPath ==
    (Answered /\ userConfig.Spec # "") =>
        (response.kind = "blob" <=> request.p = SpecEndpoint)

(* C7: with Spec empty and SpecUrl set no request is answered with a         *)
(* text/plain spec body; P/openapi-spec is handled like any other sub-path:  *)
(* redirected to P by Scalar, Swagger UI, Redoc and Elements in hash or      *)
(* memory mode, rendered by Elements in history mode.                        *)
C7_NoSpecEndpointWithSpecUrl ==
    (Answered /\ userConfig.Spec = "" /\ TemplateExecutes) =>
        /\ response.kind # "blob"
        /\ response.contentType # MIMETextPlain
        /\ (request.p = SpecEndpoint /\ request.relPath # "") =>
               IF provider = "elements" /\ config.Router = ElementsRouterHistory
               THEN response.kind = "html"
               ELSE response.kind = "redirect" /\ response.location = pathPrefix

C7_Witness ==
    /\ Answered /\ userConfig.Spec = "" /\ provider = "swaggerui"
    /\ request.p = SpecEndpoint /\ request.relPath # ""
    /\ response.kind = "redirect"

(* C8: with Spec and SpecUrl both set, Spec wins for every provider: the     *)
(* built-in page's spec reference is the synthetic basePath/openapi-spec     *)
(* path, not the configured SpecUrl (for Redoc, the computed SpecUrl field   *)
(* of the template parameters, not the embedded configuration's), and the    *)
(* passthrough serves Spec.                                                  *)
C8_SpecWinsOverSpecUrl ==
    (Answered /\ userConfig.Spec # "" /\ userConfig.SpecUrl # "") =>
        /\ ~useSpecUrl
        /\ (response.kind = "html" /\ userConfig.Template = "") =>
               /\ SpecReference(response.page) = Written(SpecEndpoint)
               /\ SpecReference(response.page) # Written(userConfig.SpecUrl)
        /\ response.kind = "blob" => response.body = userConfig.Spec
        /\ (request.p = SpecEndpoint /\ request.relPath # "") =>
               response.kind = "blob"

C8_Witness ==
    /\ Answered /\ provider = "redoc"
    /\ userConfig.Spec # "" /\ userConfig.SpecUrl # "" /\ userConfig.Template = ""
    /\ response.kind = "html"

\* the fields C9 lists for each provider
DefaultFilledFields ==
    CASE provider = "elements" ->
             {"Title", "Template", "Router", "Layout", "TryItCredentialsPolicy"}
      [] provider = "scalar" -> {"Title", "Template", "Layout", "Theme"}
      [] OTHER -> {"Title", "Template"}

(* C9: at construction every empty title, template and enum option field     *)
(* (Elements: Router, Layout, TryItCredentialsPolicy; Scalar: Layout, Theme) *)
(* takes the value of the provider's Default Configuration, and a non-empty  *)
(* field keeps the user's value.                                             *)
C9_EmptyFieldsTakeDefaults ==
    phase = "serving" =>
        \A f \in DefaultFilledFields :
            config[f] = IF userConfig[f] = "" THEN DefaultConfig(provider)[f]
                        ELSE userConfig[f]

(* C10: a template that does not parse makes construction panic, before any  *)
(* route is mounted; a constructed handler holds the parsed form of its      *)
(* configured template, so no request parses a template.                     *)
C10_TemplateParsedAtConstruction ==
    /\ (phase # "new" /\ userConfig.Template = malformedTemplate) =>
           /\ phase = "panicked"
           /\ routes = {}
           /\ response = NoResponse
    /\ (phase = "panicked" /\ (userConfig.Spec # "" \/ userConfig.SpecUrl # "")) =>
           panicValue = ParsePanic
    /\ phase = "serving" =>
           /\ pageTmpl.parsed
           /\ userConfig.Template # malformedTemplate
           /\ pageTmpl = Parse(config.Template).tmpl

C10_Witness ==
    /\ phase = "panicked" /\ panicValue = ParsePanic
    /\ userConfig.Template = malformedTemplate

----------------------------------------------------------------------------
(* C11: a template-execution failure while a request is handled is          *)
(* answered with a 500-class error response (an error the handler returns   *)
(* to echo), not by a panic of the handler: with a user template whose      *)
(* execution fails, every request that is neither the spec passthrough nor  *)
(* redirected gets an error response of status 500 or more.                 *)
C11_ExecuteFailureIsErrorResponse ==
    (Answered /\ ~TemplateExecutes) =>
        \/ response.kind \in {"blob", "redirect"}
        \/ response.kind = "error" /\ response.status >= 500

----------------------------------------------------------------------------
(* C12: once the handler is constructed, no request (passthrough, redirect   *)
(* or render) changes the configuration, the useSpecUrl flag or the parsed   *)
(* template the closure closed over; so the answer to a request is the one   *)
(* the closure gives to that request from what it closed over at             *)
(* construction, and a request repeated right after itself gets the same     *)
(* answer, byte for byte.                                                    *)
C12_RequestsLeaveClosureUnchanged ==
    [][phase = "serving" =>
          /\ config' = config
          /\ useSpecUrl' = useSpecUrl
          /\ pageTmpl' = pageTmpl
          /\ Answered' => response' = Serve(request')
          /\ (Answered /\ request' = request) => response' = response]_vars

\* GET P answered with the page after an earlier request was answered
C12_Witness ==
    /\ Answered
    /\ request.p = pathPrefix
    /\ response.kind = "html"
    /\ response.page.title # ""

----------------------------------------------------------------------------
(* C13: requests handled at once need no synchronization: under every       *)
(* interleaving of the steps of the requests in flight, each request is     *)
(* answered with exactly the response the closure gives it when it is       *)
(* handled alone, and the bytes written for a page are that page once and   *)
(* nothing else; what the closure closed over stays as constructed.         *)
C13_ConcurrentRequestsAnsweredAsAlone ==
    \A i \in Requests :
        inflight[i].pc = "done" =>
            /\ inflight[i].resp = Serve(inflight[i].c)
            /\ inflight[i].resp.kind = "html" =>
                   inflight[i].written = <<Serve(inflight[i].c).page>>

\* two requests rendered at once, both answered with the page
C13_Witness ==
    /\ \A i \in Requests : inflight[i].pc = "done" /\ inflight[i].resp.kind = "html"
    /\ \E i, j \in Requests : i # j

----------------------------------------------------------------------------
\* a page of the provider's built-in template
BuiltinPage ==
    Answered /\ response.kind = "html" /\ userConfig.Template = ""

\* the configured value of an option is neither empty nor the provider's default
NonDefault(f) ==
    userConfig[f] # "" /\ userConfig[f] # DefaultConfig(provider)[f]

(* C14 as stated: in a page of a built-in template every optional option     *)
(* (Elements layout, router, tryItCredentialsPolicy; Scalar layout, theme,   *)
(* showSidebar; Swagger UI deepLinking, displayOperationId; Redoc            *)
(* disable-search, min-character-length-to-init-search) has its attribute or *)
(* JSON key exactly when its value is neither empty nor the default.         *)
C14_Original ==
    BuiltinPage =>
        LET attrs == response.page.attrs
            conf  == response.page.configuration
        IN  CASE provider = "elements" ->
                   /\ Has(attrs, "layout") <=> NonDefault("Layout")
                   /\ Has(attrs, "router") <=> NonDefault("Router")
                   /\ Has(attrs, "tryItCredentialsPolicy")
                          <=> NonDefault("TryItCredentialsPolicy")
              [] provider = "scalar" ->
                   /\ Has(conf, "layout") <=> NonDefault("Layout")
                   /\ Has(conf, "theme") <=> NonDefault("Theme")
                   /\ Has(conf, "showSidebar") <=> userConfig.HideSidebar
              [] provider = "swaggerui" ->
                   /\ Has(conf, "deepLinking") <=> userConfig.DeepLinking
                   /\ Has(conf, "displayOperationId")
                          <=> userConfig.DisplayOperationId
              [] provider = "redoc" ->
                   /\ Has(attrs, "disable-search") <=> userConfig.DisableSearch
                   /\ Has(attrs, "min-character-length-to-init-search")
                          <=> userConfig.MinCharacterLengthToInitSearch # 0

(* C14: in a page of a built-in template, Elements tryItCredentialsPolicy is *)
(* written exactly when the value is neither empty nor "omit"; Swagger UI    *)
(* deepLinking and displayOperationId exactly when true; Redoc               *)
(* disable-search exactly when true and                                      *)
(* min-character-length-to-init-search exactly when not 0; Scalar layout and *)
(* theme exactly when the configured value is not empty, the default value   *)
(* included; Elements layout and router (with the default-filled value) and  *)
(* Scalar showSidebar (the negation of HideSidebar) are always written.      *)
C14_OmitIfEmptyPolicy ==
    BuiltinPage =>
        LET attrs == response.page.attrs
            conf  == response.page.configuration
        IN  CASE provider = "elements" ->
                   /\ Has(attrs, "layout")
                   /\ Get(attrs, "layout") = HTMLEscape(config.Layout)
                   /\ Has(attrs, "router")
                   /\ Get(attrs, "router") = HTMLEscape(config.Router)
                   /\ Has(attrs, "tryItCredentialsPolicy")
                          <=> NonDefault("TryItCredentialsPolicy")
              [] provider = "scalar" ->
                   /\ Has(conf, "layout") <=> userConfig.Layout # ""
                   /\ Has(conf, "theme") <=> userConfig.Theme # ""
                   /\ Has(conf, "showSidebar")
                   /\ Get(conf, "showSidebar") = JSONBool(~userConfig.HideSidebar)
              [] provider = "swaggerui" ->
                   /\ Has(conf, "deepLinking") <=> userConfig.DeepLinking
                   /\ Has(conf, "displayOperationId")
                          <=> userConfig.DisplayOperationId
              [] provider = "redoc" ->
                   /\ Has(attrs, "disable-search") <=> userConfig.DisableSearch
                   /\ Has(attrs, "min-character-length-to-init-search")
                          <=> userConfig.MinCharacterLengthToInitSearch # 0

\* a Scalar page for a configuration that names the default layout: the key
\* is written
C14_Witness ==
    /\ BuiltinPage
    /\ provider = "scalar"
    /\ userConfig.Layout = ScalarLayoutModern
    /\ Has(response.page.configuration, "layout")

----------------------------------------------------------------------------
\* the last request is the spec passthrough: an inline spec is configured
\* and the request path ends with the synthetic spec path
PassthroughCase ==
    /\ userConfig.Spec # ""
    /\ HasSuffix(request.p,
                 Join(TrimSuffix(request.p, request.relPath), "openapi-spec"))

\* the last request has a remainder the provider does not render at
RedirectCase ==
    /\ request.relPath # ""
    /\ provider = "elements" =>
           userConfig.Router \in {ElementsRouterHash, ElementsRouterMemory}

(* C15: the closure decides in the order passthrough, redirect, render, and  *)
(* every request it handles takes exactly one of the three branches: the raw *)
(* spec exactly when the request is the passthrough, the 302 exactly when it *)
(* is not the passthrough and has a remainder the provider redirects, the    *)
(* render (the page, or the failure of a user template that does not         *)
(* execute) exactly when it is neither; so with an inline spec GET           *)
(* P/openapi-spec is answered 200 with the raw spec, never 302, though its   *)
(* remainder is not empty.                                                   *)
C15_DecisionOrder ==
    Answered =>
        /\ response.kind \in {"blob", "redirect", "html", "panic"}
        /\ response.kind = "blob" <=> PassthroughCase
        /\ response.kind = "redirect" <=> (~PassthroughCase /\ RedirectCase)
        /\ response.kind \in {"html", "panic"}
               <=> (~PassthroughCase /\ ~RedirectCase)
        /\ response.kind = "html" => TemplateExecutes
        /\ (userConfig.Spec # "" /\ request.p = SpecEndpoint) =>
               /\ response.kind = "blob"
               /\ response.status = StatusOK
               /\ response.body = userConfig.Spec

\* GET P/openapi-spec of a base-path-only provider with an inline spec: the
\* remainder is not empty and the answer is the raw spec
C15_Witness ==
    /\ Answered
    /\ provider = "scalar"
    /\ userConfig.Spec # ""
    /\ request.p = SpecEndpoint
    /\ request.relPath # ""
    /\ response.kind = "blob"

----------------------------------------------------------------------------
(* C16: for every request the route P* dispatches (its path is P followed by *)
(* the remainder relPath), the closure's basePath is P, for every remainder, *)
(* those that repeat P or end with it included; basePath followed by relPath *)
(* is the request path; and the base path and the synthetic spec reference   *)
(* written in a page are those of P, whatever the request path.              *)
C16_BasePathIsPrefix ==
    Answered =>
        /\ BasePath(request) = pathPrefix
        /\ BasePath(request) \o request.relPath = request.p
        /\ response.kind = "redirect" => response.location = pathPrefix
        /\ (BuiltinPage /\ provider = "elements") =>
               Get(response.page.attrs, "basePath") = HTMLEscape(pathPrefix)
        /\ (BuiltinPage /\ userConfig.Spec # "") =>
               SpecReference(response.page) = Written(SpecEndpoint)
        /\ (response.kind = "html" /\ userConfig.Template = customTemplate) =>
               response.page.text =
                   "<h1>" \o HTMLEscape(config.Title) \o "</h1><p>"
                          \o HTMLEscape(pathPrefix) \o "</p>"

\* a page rendered for a request whose remainder is the prefix once more
C16_Witness ==
    /\ Answered
    /\ request.relPath = pathPrefix
    /\ request.p = pathPrefix \o pathPrefix
    /\ response.kind = "html"
    /\ provider = "elements"
    /\ userConfig.Template = ""

----------------------------------------------------------------------------
(* C17: redirects converge in one hop: whenever the closure answers 302 the  *)
(* Location differs from the request path, and the request a client issues   *)
(* by following it has an empty remainder and is answered with the 200 HTML  *)
(* page, so that no client follows more than one redirect; also when the     *)
(* remainder the router reports is not a literal suffix of the request path. *)
C17_RedirectsConvergeInOneHop ==
    Answered =>
        /\ response.kind = "redirect" => response.location # request.p
        /\ hops > 0 =>
               /\ hops = 1
               /\ request.relPath = ""
               /\ response.kind = "html"
               /\ response.status = StatusOK

====
